---- MODULE Spec2Model ----
(***************************************************************************)
(* Vulnerability code analyzer: answer validator (FeedbackSystem),         *)
(* selection tracker (SelectionManager), question store (QuestionManager)  *)
(* and session controller (VulnerabilityAnalyzerApp).                      *)
(***************************************************************************)
EXTENDS Integers, Sequences, FiniteSets, TLC

(* ------------------------------ bounds --------------------------------- *)
\* Largest line number used as an input of the validator and of the tracker.
MaxLine == 3
\* Longest input array handed to validateAnswer.
MaxSeqLen == 3
\* Most setTimeout callbacks pending at once: a handler that would schedule
\* one more is not taken.
MaxPendingTimers == 2

VARIABLES
    vaSelected,   \* validateAnswer: argument selectedLines of the pending call
    vaCorrect,    \* validateAnswer: argument correctLines of the pending call
    vaResult,     \* validateAnswer: value returned by the last call (or NoResult)
    sm,           \* SelectionManager: selectedLines, isEnabled, isAnswered,
                  \*   correctLines, incorrectLines
    dom,          \* the 'code-block' container shared by CodeRenderer and
                  \*   SelectionManager: its .code-line elements and listeners
    hist,         \* history of the tracker: markAsAnswered() was called, and
                  \*   reset() / enableSelection() were called since then
    qm,           \* QuestionManager: allQuestions, filteredQuestions,
                  \*   currentQuestionIndex, currentQuestion, filters, callbacks
    app,          \* VulnerabilityAnalyzerApp: currentAnswer, userProgress and
                  \*   the disabled flag of the verify button
    timers,       \* pending setTimeout(..., 0) callbacks, oldest first
    lastCall      \* the operation that produced the current state

vars == <<vaSelected, vaCorrect, vaResult, sm, dom, hist, qm, app, timers, lastCall>>

validateVars == <<vaSelected, vaCorrect, vaResult>>
trackerVars == <<sm, dom, hist>>
sessionVars == <<qm, app, timers>>

(* ------------------------- generic array helpers ----------------------- *)
\* new Set(array): the distinct elements of an array.
SetOf(arr) == {arr[i] : i \in DOMAIN arr}

Min(S) == CHOOSE x \in S : \A y \in S : x <= y

\* Array.from(set).sort((a, b) => a - b): ascending array of a set of numbers.
RECURSIVE SortedArray(_)
SortedArray(S) ==
    IF S = {} THEN <<>> ELSE <<Min(S)>> \o SortedArray(S \ {Min(S)})

\* array.filter(line => set.has(line))
FilterHas(arr, S) == SelectSeq(arr, LAMBDA line : line \in S)

\* array.filter(line => !set.has(line))
FilterHasNot(arr, S) == SelectSeq(arr, LAMBDA line : line \notin S)

\* All arrays over S of length at most n.
SeqsUpTo(S, n) == UNION {[1..k -> S] : k \in 0..n}

(* --------------------------- FeedbackSystem ---------------------------- *)
NoResult == [type |-> "none"]

\* The if / else-if chain that picks the feedback type.
feedbackTypeNoExtraCheck(intersection, userArray, correctArray, extraLines) ==
    IF Len(intersection) = Len(correctArray) THEN "success"
    ELSE IF Len(intersection) > 0 /\ Len(intersection) = Len(userArray) THEN "partial"
    ELSE IF Len(intersection) > 0 THEN "partial"
    ELSE "error"

feedbackTypeMixedIsError(intersection, userArray, correctArray, extraLines) ==
    IF Len(intersection) = Len(correctArray) /\ Len(extraLines) = 0 THEN "success"
    ELSE IF Len(intersection) > 0 /\ Len(intersection) = Len(userArray) THEN "partial"
    ELSE "error"

feedbackTypeMissedIsPartial(intersection, userArray, correctArray, extraLines) ==
    IF Len(intersection) = Len(correctArray) /\ Len(extraLines) = 0 THEN "success"
    ELSE IF Len(intersection) > 0 \/ Len(userArray) = 0 THEN "partial"
    ELSE "error"

feedbackType(intersection, userArray, correctArray, extraLines) ==
    IF Len(intersection) = Len(correctArray) /\ Len(extraLines) = 0 THEN "success"
    ELSE IF Len(intersection) > 0 /\ Len(intersection) = Len(userArray) THEN "partial"
    ELSE IF Len(intersection) > 0 THEN "partial"
    ELSE "error"

\* accuracy without the guard against an empty key: 0 / 0.
accuracyOfNoGuard(intersection, correctArray) ==
    [num |-> Len(intersection) * 100, den |-> Len(correctArray)]

\* accuracy: (intersection.length / correctArray.length) * 100, kept as the
\* exact fraction num/den; 0 when the key is empty.
accuracyOf(intersection, correctArray) ==
    IF Len(correctArray) > 0
    THEN [num |-> Len(intersection) * 100, den |-> Len(correctArray)]
    ELSE [num |-> 0, den |-> 1]

\* validateAnswer that compares the arrays as given, without new Set(...) and
\* sort.
validateAnswerNoNormalise(selectedLines, correctLines) ==
    LET userSet      == SetOf(selectedLines)
        correctSet   == SetOf(correctLines)
        userArray    == selectedLines
        correctArray == correctLines
        intersection == FilterHas(userArray, correctSet)
        missedLines  == FilterHasNot(correctArray, userSet)
        extraLines   == FilterHasNot(userArray, correctSet)
    IN  [type    |-> feedbackType(intersection, userArray, correctArray, extraLines),
         stats   |-> [correct  |-> Len(intersection),
                      missed   |-> Len(missedLines),
                      extra    |-> Len(extraLines),
                      total    |-> Len(correctArray),
                      accuracy |-> accuracyOf(intersection, correctArray)],
         details |-> [correctLines |-> intersection,
                      missedLines  |-> missedLines,
                      extraLines   |-> extraLines]]

\* validateAnswer that computes the missed lines from the selection and counts
\* the selection as the total.
validateAnswerMissedFromSelection(selectedLines, correctLines) ==
    LET userSet      == SetOf(selectedLines)
        correctSet   == SetOf(correctLines)
        userArray    == SortedArray(userSet)
        correctArray == SortedArray(correctSet)
        intersection == FilterHas(userArray, correctSet)
        missedLines  == FilterHasNot(userArray, correctSet)
        extraLines   == FilterHasNot(userArray, correctSet)
    IN  [type    |-> feedbackType(intersection, userArray, correctArray, extraLines),
         stats   |-> [correct  |-> Len(intersection),
                      missed   |-> Len(missedLines),
                      extra    |-> Len(extraLines),
                      total    |-> Len(userArray),
                      accuracy |-> accuracyOf(intersection, correctArray)],
         details |-> [correctLines |-> intersection,
                      missedLines  |-> missedLines,
                      extraLines   |-> extraLines]]

\* validateAnswer(selectedLines, correctLines) on two arrays of numbers.
validateAnswer(selectedLines, correctLines) ==
    LET userSet      == SetOf(selectedLines)
        correctSet   == SetOf(correctLines)
        userArray    == SortedArray(userSet)
        correctArray == SortedArray(correctSet)
        intersection == FilterHas(userArray, correctSet)
        missedLines  == FilterHasNot(correctArray, userSet)
        extraLines   == FilterHasNot(userArray, correctSet)
    IN  [type    |-> feedbackType(intersection, userArray, correctArray, extraLines),
         stats   |-> [correct  |-> Len(intersection),
                      missed   |-> Len(missedLines),
                      extra    |-> Len(extraLines),
                      total    |-> Len(correctArray),
                      accuracy |-> accuracyOf(intersection, correctArray)],
         details |-> [correctLines |-> intersection,
                      missedLines  |-> missedLines,
                      extraLines   |-> extraLines]]

(* --------------------- code container (CodeRenderer) ------------------- *)
\* The container after construction of the page: no .code-line element yet.
domInit == [lines |-> 0, listening |-> FALSE]

\* renderCode: the container is emptied and one .code-line element per line
\* is appended, data-line-number = index + 1; the new elements carry no
\* click / keydown listener of the tracker.
renderedDom(lineCount) == [lines |-> lineCount, listening |-> FALSE]

\* container.querySelector('[data-line-number="n"]') finds an element.
getLineElement(d, lineNumber) == lineNumber \in 1..d.lines

(* --------------------------- SelectionManager -------------------------- *)
\* Fields set by the constructor.
smInit ==
    [selectedLines  |-> {},
     isEnabled      |-> FALSE,
     isAnswered     |-> FALSE,
     correctLines   |-> {},
     incorrectLines |-> {}]

\* marksOn: id of the exercise that was current when the marks now in the
\* mark set were made (0: no mark, -1: made while no exercise was current);
\* answeredOn: id of the exercise on which the tracker was marked answered
\* (0: not by a verification); answerOn: id of the exercise whose
\* verification produced the retained answer (0: no retained answer).
histInit ==
    [marked |-> FALSE, resetSince |-> FALSE, enableSince |-> FALSE,
     marksOn |-> 0, answeredOn |-> 0, answerOn |-> 0]

disableSelection(s) ==
    IF ~s.isEnabled THEN s ELSE [s EXCEPT !.isEnabled = FALSE]

\* Listeners of the line elements after disableSelection().
disableSelectionDom(s, d) ==
    IF ~s.isEnabled THEN d ELSE [d EXCEPT !.listening = FALSE]

clearFeedbackHighlights(s) ==
    [s EXCEPT !.correctLines = {}, !.incorrectLines = {}]

enableSelectionKeepsAnswered(s) ==
    clearFeedbackHighlights([disableSelection(s) EXCEPT !.isEnabled = TRUE])

enableSelection(s) ==
    clearFeedbackHighlights(
        [disableSelection(s) EXCEPT !.isEnabled = TRUE, !.isAnswered = FALSE])

\* Listeners of the line elements after enableSelection(): every .code-line
\* element now in the container gets the click and keydown handlers.
enableSelectionDom(s, d) ==
    [disableSelectionDom(s, d) EXCEPT !.listening = (d.lines > 0)]

\* selectLine without the test of the line element.
selectLineNoElementCheck(s, d, lineNumber) ==
    IF lineNumber \in s.selectedLines THEN s
    ELSE [s EXCEPT !.selectedLines = @ \cup {lineNumber}]

selectLine(s, d, lineNumber) ==
    IF lineNumber \in s.selectedLines THEN s
    ELSE IF ~getLineElement(d, lineNumber) THEN s
    ELSE [s EXCEPT !.selectedLines = @ \cup {lineNumber}]

deselectLine(s, d, lineNumber) ==
    IF lineNumber \notin s.selectedLines THEN s
    ELSE IF ~getLineElement(d, lineNumber) THEN s
    ELSE [s EXCEPT !.selectedLines = @ \ {lineNumber}]

toggleLineSelectionAlwaysSelects(s, d, lineNumber) ==
    selectLine(s, d, lineNumber)

toggleLineSelection(s, d, lineNumber) ==
    IF lineNumber \in s.selectedLines
    THEN deselectLine(s, d, lineNumber)
    ELSE selectLine(s, d, lineNumber)

handleLineClickIgnoresAnswered(s, d, lineNumber) ==
    IF ~s.isEnabled THEN s ELSE toggleLineSelection(s, d, lineNumber)

\* handleLineClick(event), event.currentTarget being the line element whose
\* data-line-number attribute parses to lineNumber.
handleLineClick(s, d, lineNumber) ==
    IF ~s.isEnabled \/ s.isAnswered THEN s
    ELSE toggleLineSelection(s, d, lineNumber)

\* Keys a keydown event on a line element may carry.
Keys == {"Enter", " ", "a"}

handleKeyPress(s, d, lineNumber, key) ==
    IF ~s.isEnabled \/ s.isAnswered THEN s
    ELSE IF key = "Enter" \/ key = " " THEN toggleLineSelection(s, d, lineNumber)
    ELSE s

getSelectedLines(s) == SortedArray(s.selectedLines)

\* selectedLines.forEach(lineNumber => this.deselectLine(lineNumber))
RECURSIVE deselectEach(_, _, _)
deselectEach(s, d, lines) ==
    IF lines = <<>> THEN s
    ELSE deselectEach(deselectLine(s, d, Head(lines)), d, Tail(lines))

clearSelectionNoFinalClear(s, d) ==
    deselectEach(s, d, SortedArray(s.selectedLines))

\* clearSelection(): deselectLine for every selected line, then Set.clear().
clearSelection(s, d) ==
    [deselectEach(s, d, SortedArray(s.selectedLines)) EXCEPT !.selectedLines = {}]

\* Values an entry of the argument of setSelectedLines may have: the number
\* n, the number n + 0.5, the string "n".
Num(n) == [kind |-> "number", value |-> n]
Frac(n) == [kind |-> "fraction", value |-> n]
Str(n) == [kind |-> "string", value |-> n]

\* The argument of setSelectedLines: an array of entries, or not an array.
ArrayOf(items) == [isArray |-> TRUE, items |-> items]
NotAnArray == [isArray |-> FALSE, items |-> <<>>]

\* typeof lineNumber === 'number' && lineNumber > 0
isPositiveNumber(entry) ==
    \/ entry.kind = "number" /\ entry.value > 0
    \/ entry.kind = "fraction" /\ entry.value >= 0

\* selectLine(lineNumber) on an entry that passed the test: no element has a
\* data-line-number that is not a whole number.
selectEntry(s, d, entry) ==
    IF entry.kind = "number" THEN selectLine(s, d, entry.value) ELSE s

\* lineNumbers.forEach(lineNumber => { if (...) this.selectLine(lineNumber) })
RECURSIVE selectEach(_, _, _)
selectEach(s, d, items) ==
    IF items = <<>> THEN s
    ELSE selectEach(
             IF isPositiveNumber(Head(items)) THEN selectEntry(s, d, Head(items)) ELSE s,
             d, Tail(items))

\* setSelectedLines that adds to the marks held before.
setSelectedLinesKeepsMarks(s, d, lineNumbers) ==
    IF ~lineNumbers.isArray THEN s
    ELSE selectEach(s, d, lineNumbers.items)

setSelectedLines(s, d, lineNumbers) ==
    IF ~lineNumbers.isArray THEN s
    ELSE selectEach(clearSelection(s, d), d, lineNumbers.items)

highlightCorrectLines(s, lines) == [s EXCEPT !.correctLines = SetOf(lines)]

highlightIncorrectLines(s, lines) == [s EXCEPT !.incorrectLines = SetOf(lines)]

markAsAnswered(s) == [s EXCEPT !.isAnswered = TRUE]

\* reset(): clearSelection, clearFeedbackHighlights, isAnswered = false.
reset(s, d) ==
    [clearFeedbackHighlights(clearSelection(s, d)) EXCEPT !.isAnswered = FALSE]

(* ------------------------------ calls ---------------------------------- *)
\* The record kept in lastCall: the operation, its line-number argument (0
\* when it has none) and the key of a keydown event ("" when there is none).
Call(op, arg, key) == [op |-> op, arg |-> arg, key |-> key]

\* The record kept in lastCall for an operation of the store or of the
\* session: the filter criteria it was given (noCriteria when it takes
\* none), whether it returned success, and whether it threw.
noCriteria == [difficulty |-> "<absent>", category |-> "<absent>", language |-> "<absent>"]

CallS(op, arg, criteria, w) ==
    [op |-> op, arg |-> arg, key |-> "", criteria |-> criteria,
     ret |-> w.ret, threw |-> w.threw]

\* A request to toggle a line: a click, an Enter / Space key press, or a
\* direct toggleLineSelection call.
IsLineClickOrKey(c) ==
    \/ c.op = "handleLineClick"
    \/ c.op = "handleKeyPress" /\ c.key \in {"Enter", " "}

\* hist after markAsAnswered(), reset(), enableSelection().
histMark(h) ==
    [h EXCEPT !.marked = TRUE, !.resetSince = FALSE, !.enableSince = FALSE]
histReset(h) == [h EXCEPT !.resetSince = TRUE, !.marksOn = 0, !.answeredOn = 0]
histEnable(h) == [h EXCEPT !.enableSince = TRUE, !.answeredOn = 0]
\* hist after a toggle made while question was the current exercise, s being
\* the tracker after the toggle.
histToggle(h, s, question) ==
    [h EXCEPT !.marksOn = IF s.selectedLines = {} THEN 0
                          ELSE IF question = [none |-> TRUE] THEN -1
                          ELSE question.id]
\* hist after the markAsAnswered() of a verification of question.
histAnswer(h, question) ==
    [histMark(h) EXCEPT !.answeredOn = question.id, !.answerOn = question.id]
\* hist after this.currentAnswer = null.
histForget(h) == [h EXCEPT !.answerOn = 0]

(* ------------------------------ exercises ------------------------------ *)
\* Source code is an array of characters, "\n" being the line separator.
\* code.split('\n').length
SplitLength(code) == 1 + Cardinality({i \in DOMAIN code : code[i] = "\n"})

\* Code of n non-empty lines.
RECURSIVE CodeOfLines(_)
CodeOfLines(n) ==
    IF n <= 1 THEN <<"x">> ELSE CodeOfLines(n - 1) \o <<"\n", "x">>

\* An exercise record. structure is "ok" when every required field is
\* present with the required type.
Question(id, difficulty, category, language, code, vulnerableLines) ==
    [id |-> id, difficulty |-> difficulty, category |-> category,
     language |-> language, code |-> code,
     vulnerableLines |-> vulnerableLines, structure |-> "ok"]

\* this.currentQuestion = null
NoQuestion == [none |-> TRUE]

QA == Question(1, "basic", "sql-injection", "php", CodeOfLines(2), <<1, 2>>)
QB == Question(2, "basic", "sql-injection", "java", CodeOfLines(1), <<>>)
QC == Question(3, "advanced", "xss", "c", CodeOfLines(2), <<1>>)
\* Records that fail validateQuestion.
QBadLine == Question(4, "basic", "xss", "c", CodeOfLines(2), <<3>>)
QBadLanguage == Question(5, "basic", "xss", "ruby", CodeOfLines(2), <<1>>)
\* A record whose tags are not in lower case; it passes validateQuestion.
QMixedCase == Question(6, "Basic", "xss", "Java", CodeOfLines(2), <<2>>)
\* A record that lacks a required field.
QNoTitle ==
    [Question(7, "basic", "xss", "c", CodeOfLines(1), <<1>>)
        EXCEPT !.structure = "no-title"]

\* Records whose id is the id of QA, and zero; typeof id === 'number' holds.
QSameId == Question(1, "advanced", "xss", "c", CodeOfLines(1), <<1>>)
QZeroId == Question(0, "basic", "xss", "python", CodeOfLines(1), <<>>)

\* A record whose code is the empty string; typeof code === 'string' holds
\* and ''.split('\n') has one element.
QEmptyCode == Question(8, "advanced", "xss", "c", <<>>, <<>>)

\* The exercise list the application is constructed with.
SampleQuestionLists == {<<QA, QB, QC>>}

\* Arrays handed to loadQuestions by a direct caller of the store.
LoadInputs ==
    {<<>>, <<QA, QB, QC>>, <<QC, QBadLine, QA>>, <<QBadLanguage>>,
     <<QBadLine, QMixedCase, QBadLanguage, QNoTitle, QB>>,
     <<QA, QSameId, QZeroId>>}

\* String.prototype.toLowerCase on the tags used here.
toLowerCase(str) ==
    CASE str = "Java" -> "java"
      [] str = "Basic" -> "basic"
      [] OTHER -> str

supportedLanguages ==
    {"c", "cpp", "java", "javascript", "python", "php", "sql", "csharp"}

supportedDifficulties == {"basic", "intermediate", "advanced"}

\* validateQuestion without the check of the vulnerable line numbers.
validateQuestionNoLineCheck(question) ==
    /\ question.structure = "ok"
    /\ toLowerCase(question.language) \in supportedLanguages
    /\ toLowerCase(question.difficulty) \in supportedDifficulties

validateQuestion(question) ==
    /\ question.structure = "ok"
    /\ \A i \in DOMAIN question.vulnerableLines :
          /\ question.vulnerableLines[i] >= 1
          /\ question.vulnerableLines[i] <= SplitLength(question.code)
    /\ toLowerCase(question.language) \in supportedLanguages
    /\ toLowerCase(question.difficulty) \in supportedDifficulties

(* ------------------------------ the session ---------------------------- *)
\* A criteria key that the caller did not pass.
Absent == "<absent>"

noFilters == [difficulty |-> "", category |-> "", language |-> ""]

\* new QuestionManager(): no question; callbacks tells whether the
\* application has installed onQuestionLoad / onQuestionChange / onFilterChange.
qmInit(callbacks) ==
    [allQuestions         |-> <<>>,
     filteredQuestions    |-> <<>>,
     currentQuestionIndex |-> 0,
     currentQuestion      |-> NoQuestion,
     filters              |-> noFilters,
     callbacks            |-> callbacks]

\* this.currentAnswer = null
NoAnswer == [none |-> TRUE]

\* Application state set by the constructor; the verify button starts as the
\* page declares it.
appInit(verifyDisabled) ==
    [currentAnswer  |-> NoAnswer,
     completed      |-> {},
     correct        |-> {},
     incorrect      |-> {},
     verifyDisabled |-> verifyDisabled]

\* No onQuestionChange callback has been called.
NoChange == [none |-> TRUE]

\* The state a handler works on, threaded through the calls it makes.
\* threw: an exception is propagating; ret: the value returned last;
\* change: the arguments the onQuestionChange callback was called with.
World ==
    [qm |-> qm, sm |-> sm, dom |-> dom, hist |-> hist, app |-> app,
     timers |-> timers, threw |-> FALSE, ret |-> TRUE, change |-> NoChange]

hasVulnerabilities(question) == Len(question.vulnerableLines) > 0

\* onSelectionChange(selectedLines): the verify button follows the selection.
onSelectionChange(w, count) ==
    IF w.qm.currentQuestion = NoQuestion
    THEN [w EXCEPT !.app.verifyDisabled = TRUE]
    ELSE [w EXCEPT !.app.verifyDisabled =
              ~(count > 0 \/ ~hasVulnerabilities(w.qm.currentQuestion))]

\* renderCode(code, language) throws on an empty code or language.
renderCodeThrows(question) == question.code = <<>> \/ question.language = ""

displayQuestion(w, question) ==
    IF renderCodeThrows(question)
    THEN [w EXCEPT !.threw = TRUE]
    ELSE [w EXCEPT !.dom = renderedDom(SplitLength(question.code))]

resetForNewQuestion(w, question) ==
    LET s1 == reset(w.sm, w.dom)
        w1 == [w EXCEPT !.sm = enableSelection(s1),
                        !.dom = enableSelectionDom(s1, w.dom),
                        !.hist = histEnable(histReset(w.hist)),
                        !.app.verifyDisabled = hasVulnerabilities(question)]
    IN  onSelectionChange(w1, 0)

\* onQuestionLoad that resets and enables at once, before the display, instead
\* of deferring.
onQuestionLoadResetsFirst(w, question) ==
    displayQuestion(resetForNewQuestion(w, question), question)

\* onQuestionLoad(question, index): display, then defer the reset.
onQuestionLoad(w, question) ==
    LET w1 == displayQuestion(w, question)
    IN  IF w1.threw THEN w1
        ELSE [w1 EXCEPT !.timers = Append(@, question)]

\* this.onQuestionChange(this.currentQuestion, previousQuestion, direction):
\* the arguments the callback receives.
changeArguments(w, previousQuestion, direction) ==
    [w EXCEPT !.change = [newQuestion |-> w.qm.currentQuestion,
                          oldQuestion |-> previousQuestion,
                          direction   |-> direction]]

\* onQuestionChange that keeps the retained answer.
onQuestionChangeKeepsAnswer(w) == w

onQuestionChange(w) ==
    [w EXCEPT !.app.currentAnswer = NoAnswer, !.hist = histForget(@)]

\* onFilterChange: refreshes the statistics, navigation and progress display.
onFilterChange(w) == w

\* loadQuestion(index); ret is FALSE when it returns null.
loadQuestion(w, index) ==
    IF index < 0 \/ index >= Len(w.qm.filteredQuestions)
    THEN [w EXCEPT !.ret = FALSE]
    ELSE LET w1 == [w EXCEPT !.qm.currentQuestionIndex = index,
                             !.qm.currentQuestion = w.qm.filteredQuestions[index + 1],
                             !.ret = TRUE]
         IN  IF w.qm.callbacks
             THEN onQuestionLoad(w1, w1.qm.currentQuestion)
             ELSE w1

loadQuestions(w, questions) ==
    LET validQuestions == SelectSeq(questions, validateQuestion)
        w1 == [w EXCEPT !.qm.allQuestions = validQuestions,
                        !.qm.filteredQuestions = validQuestions,
                        !.qm.currentQuestionIndex = 0]
    IN  IF Len(validQuestions) > 0 THEN loadQuestion(w1, 0) ELSE w1

\* nextQuestion that wraps around to the first question after the last one.
nextQuestionWraps(w) ==
    LET nextIndex == w.qm.currentQuestionIndex + 1
        target == IF nextIndex >= Len(w.qm.filteredQuestions) THEN 0 ELSE nextIndex
        w1 == loadQuestion(w, target)
    IN  IF ~w1.threw /\ w1.ret /\ w.qm.callbacks
        THEN onQuestionChange(w1)
        ELSE w1

nextQuestion(w) ==
    LET nextIndex == w.qm.currentQuestionIndex + 1
    IN  IF nextIndex >= Len(w.qm.filteredQuestions)
        THEN [w EXCEPT !.ret = FALSE]
        ELSE LET previousQuestion == w.qm.currentQuestion
                 w1 == loadQuestion(w, nextIndex)
             IN  IF ~w1.threw /\ w1.ret /\ w.qm.callbacks
                 THEN onQuestionChange(changeArguments(w1, previousQuestion, "next"))
                 ELSE w1

previousQuestion(w) ==
    LET prevIndex == w.qm.currentQuestionIndex - 1
    IN  IF prevIndex < 0
        THEN [w EXCEPT !.ret = FALSE]
        ELSE LET oldQuestion == w.qm.currentQuestion
                 w1 == loadQuestion(w, prevIndex)
             IN  IF ~w1.threw /\ w1.ret /\ w.qm.callbacks
                 THEN onQuestionChange(changeArguments(w1, oldQuestion, "previous"))
                 ELSE w1

\* goToQuestion(index); the direction is computed after loadQuestion has
\* assigned this.currentQuestionIndex.
goToQuestion(w, index) ==
    IF index = w.qm.currentQuestionIndex
    THEN [w EXCEPT !.ret = TRUE]
    ELSE LET oldQuestion == w.qm.currentQuestion
             w1 == loadQuestion(w, index)
             direction == IF index > w1.qm.currentQuestionIndex
                          THEN "next" ELSE "previous"
         IN  IF ~w1.threw /\ w1.ret /\ w.qm.callbacks
             THEN onQuestionChange(changeArguments(w1, oldQuestion, direction))
             ELSE w1

\* { ...this.filters, ...criteria }
mergeFiltersReplacing(filters, criteria) ==
    [k \in DOMAIN filters |-> IF criteria[k] = Absent THEN "" ELSE criteria[k]]

mergeFilters(filters, criteria) ==
    [k \in DOMAIN filters |-> IF criteria[k] = Absent THEN filters[k] ELSE criteria[k]]

\* The predicate of allQuestions.filter(...) in filterQuestions.
matchesFilters(question, filters) ==
    /\ ~(filters.difficulty # "" /\ question.difficulty # filters.difficulty)
    /\ ~(filters.category # "" /\ question.category # filters.category)
    /\ ~(filters.language # "" /\ question.language # filters.language)

\* filterQuestions that leaves the current exercise alone on an empty view.
filterQuestionsKeepsCurrent(w, criteria) ==
    LET filters == mergeFilters(w.qm.filters, criteria)
        filtered == SelectSeq(w.qm.allQuestions,
                              LAMBDA question : matchesFilters(question, filters))
        w1 == [w EXCEPT !.qm.filters = filters,
                        !.qm.filteredQuestions = filtered,
                        !.qm.currentQuestionIndex = 0]
        w2 == IF Len(filtered) > 0 THEN loadQuestion(w1, 0) ELSE w1
    IN  IF ~w2.threw /\ w.qm.callbacks THEN onFilterChange(w2) ELSE w2

filterQuestions(w, criteria) ==
    LET filters == mergeFilters(w.qm.filters, criteria)
        filtered == SelectSeq(w.qm.allQuestions,
                              LAMBDA question : matchesFilters(question, filters))
        w1 == [w EXCEPT !.qm.filters = filters,
                        !.qm.filteredQuestions = filtered,
                        !.qm.currentQuestionIndex = 0]
        w2 == IF Len(filtered) > 0
              THEN loadQuestion(w1, 0)
              ELSE [w1 EXCEPT !.qm.currentQuestion = NoQuestion]
    IN  IF ~w2.threw /\ w.qm.callbacks THEN onFilterChange(w2) ELSE w2

clearFilters(w) == filterQuestions(w, noFilters)

\* QuestionManager.reset()
resetStore(w) ==
    LET w1 == [w EXCEPT !.qm.currentQuestionIndex = 0]
    IN  IF Len(w1.qm.filteredQuestions) > 0 THEN loadQuestion(w1, 0) ELSE w1

showCodeLineFeedback(s, selectedLines, correctLines) ==
    LET s1 == highlightCorrectLines(s, correctLines)
        incorrectLines == FilterHasNot(selectedLines, SetOf(correctLines))
    IN  IF Len(incorrectLines) > 0
        THEN highlightIncorrectLines(s1, incorrectLines)
        ELSE s1

\* updateUserProgress that counts a partial outcome as correct.
updateUserProgressPartialIsCorrect(a, question, validationResult) ==
    IF validationResult.type \in {"success", "partial"}
    THEN [a EXCEPT !.completed = @ \cup {question.id},
                   !.correct = @ \cup {question.id},
                   !.incorrect = @ \ {question.id}]
    ELSE [a EXCEPT !.completed = @ \cup {question.id},
                   !.incorrect = @ \cup {question.id},
                   !.correct = @ \ {question.id}]

updateUserProgressKeepsOpposite(a, question, validationResult) ==
    IF validationResult.type = "success"
    THEN [a EXCEPT !.completed = @ \cup {question.id},
                   !.correct = @ \cup {question.id}]
    ELSE [a EXCEPT !.completed = @ \cup {question.id},
                   !.incorrect = @ \cup {question.id}]

\* updateUserProgress(question, validationResult) on the completed, correct
\* and incorrect sets.
updateUserProgress(a, question, validationResult) ==
    IF validationResult.type = "success"
    THEN [a EXCEPT !.completed = @ \cup {question.id},
                   !.correct = @ \cup {question.id},
                   !.incorrect = @ \ {question.id}]
    ELSE [a EXCEPT !.completed = @ \cup {question.id},
                   !.incorrect = @ \cup {question.id},
                   !.correct = @ \ {question.id}]

\* The two early returns of verifyAnswer().
verifyRefusedOnlyWithoutQuestion(w) ==
    w.qm.currentQuestion = NoQuestion

\* An early return on every empty selection, secure code included.
verifyRefusedOnEveryEmptySelection(w) ==
    \/ w.qm.currentQuestion = NoQuestion
    \/ Len(getSelectedLines(w.sm)) = 0

verifyRefused(w) ==
    \/ w.qm.currentQuestion = NoQuestion
    \/ /\ Len(getSelectedLines(w.sm)) = 0
       /\ hasVulnerabilities(w.qm.currentQuestion)

\* verifyAnswer(); ret is FALSE when it returned early.
verifyAnswer(w) ==
    IF verifyRefused(w) THEN [w EXCEPT !.ret = FALSE]
    ELSE
    LET currentQuestion == w.qm.currentQuestion
        selectedLines == getSelectedLines(w.sm)
        validationResult == validateAnswer(selectedLines, currentQuestion.vulnerableLines)
        s1 == markAsAnswered(w.sm)
        s2 == IF hasVulnerabilities(currentQuestion)
              THEN showCodeLineFeedback(s1, selectedLines, currentQuestion.vulnerableLines)
              ELSE s1
        a1 == [w.app EXCEPT !.currentAnswer =
                  [selectedLines |-> selectedLines,
                   validationResult |-> validationResult]]
        a2 == updateUserProgress(a1, currentQuestion, validationResult)
    IN  [w EXCEPT !.sm = s2,
                  !.hist = histAnswer(w.hist, currentQuestion),
                  !.app = [a2 EXCEPT !.verifyDisabled = TRUE],
                  !.ret = TRUE]

\* What a handler leaves behind.
Commit(w) ==
    /\ qm' = w.qm
    /\ sm' = w.sm
    /\ dom' = w.dom
    /\ hist' = w.hist
    /\ app' = w.app
    /\ timers' = w.timers

(* ------------------- specification of the validator -------------------- *)
InitValidate ==
    /\ vaSelected \in SeqsUpTo(1..MaxLine, MaxSeqLen)
    /\ vaCorrect \in SeqsUpTo(1..MaxLine, MaxSeqLen)
    /\ vaResult = NoResult
    /\ sm = smInit
    /\ dom = domInit
    /\ hist = histInit
    /\ qm = qmInit(FALSE)
    /\ app = appInit(TRUE)
    /\ timers = <<>>
    /\ lastCall = Call("constructor", 0, "")

\* A call feedbackSystem.validateAnswer(vaSelected, vaCorrect).
ValidateAnswer ==
    /\ vaResult = NoResult
    /\ vaResult' = validateAnswer(vaSelected, vaCorrect)
    /\ lastCall' = Call("validateAnswer", 0, "")
    /\ UNCHANGED <<vaSelected, vaCorrect, sm, dom, hist, sessionVars>>

NextValidate == ValidateAnswer

SpecValidate == InitValidate /\ [][NextValidate]_vars

(* -------------------- specification of the tracker --------------------- *)
\* Arrays a direct caller hands to highlightCorrectLines and
\* highlightIncorrectLines: the empty array and every one-line array.
HighlightInputs == {<<>>} \cup {<<n>> : n \in 1..MaxLine}

\* The tracker and the code container right after construction; every
\* public method of the tracker may then be called, and the renderer may
\* render code of 1..MaxLine lines into the shared container.
InitTracker ==
    /\ vaSelected = <<>>
    /\ vaCorrect = <<>>
    /\ vaResult = NoResult
    /\ sm = smInit
    /\ dom = domInit
    /\ hist = histInit
    /\ qm = qmInit(FALSE)
    /\ app = appInit(TRUE)
    /\ timers = <<>>
    /\ lastCall = Call("constructor", 0, "")

RenderCode ==
    \E lineCount \in 1..MaxLine :
        /\ dom' = renderedDom(lineCount)
        /\ lastCall' = Call("renderCode", lineCount, "")
        /\ UNCHANGED <<sm, hist, validateVars, sessionVars>>

EnableSelection ==
    /\ sm' = enableSelection(sm)
    /\ dom' = enableSelectionDom(sm, dom)
    /\ hist' = histEnable(hist)
    /\ lastCall' = Call("enableSelection", 0, "")
    /\ UNCHANGED <<validateVars, sessionVars>>

DisableSelection ==
    /\ sm' = disableSelection(sm)
    /\ dom' = disableSelectionDom(sm, dom)
    /\ lastCall' = Call("disableSelection", 0, "")
    /\ UNCHANGED <<hist, validateVars, sessionVars>>

\* handleLineClick on one of the line elements of the container.
HandleLineClick ==
    \E lineNumber \in 1..dom.lines :
        /\ sm' = handleLineClick(sm, dom, lineNumber)
        /\ lastCall' = Call("handleLineClick", lineNumber, "")
        /\ UNCHANGED <<dom, hist, validateVars, sessionVars>>

\* handleKeyPress on one of the line elements of the container.
HandleKeyPress ==
    \E lineNumber \in 1..dom.lines, key \in Keys :
        /\ sm' = handleKeyPress(sm, dom, lineNumber, key)
        /\ lastCall' = Call("handleKeyPress", lineNumber, key)
        /\ UNCHANGED <<dom, hist, validateVars, sessionVars>>

\* toggleLineSelection(lineNumber) called directly, also with a number that
\* is no line of the rendered code.
ToggleLineSelection ==
    \E lineNumber \in 1..(MaxLine + 1) :
        /\ sm' = toggleLineSelection(sm, dom, lineNumber)
        /\ lastCall' = Call("toggleLineSelection", lineNumber, "")
        /\ UNCHANGED <<dom, hist, validateVars, sessionVars>>

\* selectLine(lineNumber) called directly, also with a number that is no
\* line of the rendered code.
SelectLine ==
    \E lineNumber \in 0..(MaxLine + 1) :
        /\ sm' = selectLine(sm, dom, lineNumber)
        /\ lastCall' = Call("selectLine", lineNumber, "")
        /\ UNCHANGED <<dom, hist, validateVars, sessionVars>>

\* Arguments a direct caller hands to setSelectedLines.
SetSelectedInputs ==
    {NotAnArray,
     ArrayOf(<<>>),
     ArrayOf(<<Num(1)>>),
     ArrayOf(<<Num(2), Num(1), Num(2)>>),
     ArrayOf(<<Num(0), Num(2)>>),
     ArrayOf(<<Num(-1), Frac(1), Num(1)>>),
     ArrayOf(<<Str(1), Frac(0)>>),
     ArrayOf(<<Num(MaxLine + 1)>>)}

SetSelectedLines ==
    \E lineNumbers \in SetSelectedInputs :
        /\ sm' = setSelectedLines(sm, dom, lineNumbers)
        /\ lastCall' = Call("setSelectedLines", lineNumbers, "")
        /\ UNCHANGED <<dom, hist, validateVars, sessionVars>>

ClearSelection ==
    /\ sm' = clearSelection(sm, dom)
    /\ lastCall' = Call("clearSelection", 0, "")
    /\ UNCHANGED <<dom, hist, validateVars, sessionVars>>

HighlightCorrectLines ==
    \E lines \in HighlightInputs :
        /\ sm' = highlightCorrectLines(sm, lines)
        /\ lastCall' = Call("highlightCorrectLines", 0, "")
        /\ UNCHANGED <<dom, hist, validateVars, sessionVars>>

HighlightIncorrectLines ==
    \E lines \in HighlightInputs :
        /\ sm' = highlightIncorrectLines(sm, lines)
        /\ lastCall' = Call("highlightIncorrectLines", 0, "")
        /\ UNCHANGED <<dom, hist, validateVars, sessionVars>>

MarkAsAnswered ==
    /\ sm' = markAsAnswered(sm)
    /\ hist' = histMark(hist)
    /\ lastCall' = Call("markAsAnswered", 0, "")
    /\ UNCHANGED <<dom, validateVars, sessionVars>>

Reset ==
    /\ sm' = reset(sm, dom)
    /\ hist' = histReset(hist)
    /\ lastCall' = Call("reset", 0, "")
    /\ UNCHANGED <<dom, validateVars, sessionVars>>

NextTracker ==
    \/ RenderCode
    \/ EnableSelection
    \/ DisableSelection
    \/ HandleLineClick
    \/ HandleKeyPress
    \/ ToggleLineSelection
    \/ SelectLine
    \/ SetSelectedLines
    \/ ClearSelection
    \/ HighlightCorrectLines
    \/ HighlightIncorrectLines
    \/ MarkAsAnswered
    \/ Reset

SpecTracker == InitTracker /\ [][NextTracker]_vars

(* --------------------- specification of the store --------------------- *)
\* A QuestionManager constructed without questions and without callbacks;
\* its public methods are then called in any order.
InitStore ==
    /\ vaSelected = <<>>
    /\ vaCorrect = <<>>
    /\ vaResult = NoResult
    /\ sm = smInit
    /\ dom = domInit
    /\ hist = histInit
    /\ qm = qmInit(FALSE)
    /\ app = appInit(TRUE)
    /\ timers = <<>>
    /\ lastCall = Call("constructor", 0, "")

\* Criteria objects handed to filterQuestions: each key absent, empty or set.
CriteriaInputs ==
    [difficulty : {Absent, "", "basic", "advanced"},
     category   : {Absent, "", "xss"},
     language   : {Absent, "", "c"}]

StoreLoadQuestions ==
    \E questions \in LoadInputs :
        LET w == loadQuestions(World, questions)
        IN  /\ Commit(w)
            /\ lastCall' = CallS("loadQuestions", questions, noCriteria, w)
            /\ UNCHANGED validateVars

StoreNextQuestion ==
    LET w == nextQuestion(World)
    IN  /\ Commit(w)
        /\ lastCall' = CallS("nextQuestion", 0, noCriteria, w)
        /\ UNCHANGED validateVars

StorePreviousQuestion ==
    LET w == previousQuestion(World)
    IN  /\ Commit(w)
        /\ lastCall' = CallS("previousQuestion", 0, noCriteria, w)
        /\ UNCHANGED validateVars

StoreGoToQuestion ==
    \E index \in -1..3 :
        LET w == goToQuestion(World, index)
        IN  /\ Commit(w)
            /\ lastCall' = CallS("goToQuestion", index, noCriteria, w)
            /\ UNCHANGED validateVars

StoreFilterQuestions ==
    \E criteria \in CriteriaInputs :
        LET w == filterQuestions(World, criteria)
        IN  /\ Commit(w)
            /\ lastCall' = CallS("filterQuestions", 0, criteria, w)
            /\ UNCHANGED validateVars

StoreClearFilters ==
    LET w == clearFilters(World)
    IN  /\ Commit(w)
        /\ lastCall' = CallS("clearFilters", 0, noCriteria, w)
        /\ UNCHANGED validateVars

StoreReset ==
    LET w == resetStore(World)
    IN  /\ Commit(w)
        /\ lastCall' = CallS("reset", 0, noCriteria, w)
        /\ UNCHANGED validateVars

NextStore ==
    \/ StoreLoadQuestions
    \/ StoreNextQuestion
    \/ StorePreviousQuestion
    \/ StoreGoToQuestion
    \/ StoreFilterQuestions
    \/ StoreClearFilters
    \/ StoreReset

SpecStore == InitStore /\ [][NextStore]_vars

(* -------------------- specification of the session -------------------- *)
\* The components as initializeComponents() leaves them.
ConstructedWorld(verifyDisabled) ==
    [qm |-> qmInit(TRUE), sm |-> smInit, dom |-> domInit, hist |-> histInit,
     app |-> appInit(verifyDisabled), timers |-> <<>>,
     threw |-> FALSE, ret |-> TRUE, change |-> NoChange]

\* The application after initialize(): the sample questions are loaded, the
\* first one is displayed and its deferred reset is pending.
InitApp ==
    /\ vaSelected = <<>>
    /\ vaCorrect = <<>>
    /\ vaResult = NoResult
    /\ \E questions \in SampleQuestionLists, verifyDisabled \in BOOLEAN :
          LET w == loadQuestions(ConstructedWorld(verifyDisabled), questions)
          IN  /\ qm = w.qm
              /\ sm = w.sm
              /\ dom = w.dom
              /\ hist = w.hist
              /\ app = w.app
              /\ timers = w.timers
              /\ lastCall = CallS("initialize", 0, noCriteria, w)

\* Values the three filter selects of the page can take.
FilterSelections ==
    [difficulty : {"", "basic"},
     category   : {"", "xss"},
     language   : {""}]

\* The click listener of a line element: handleLineClick, whose toggle ends
\* with the onSelectionChange callback of the application.
lineClicked(w, lineNumber) ==
    LET s1 == handleLineClick(w.sm, w.dom, lineNumber)
    IN  IF ~w.sm.isEnabled \/ w.sm.isAnswered
        THEN w
        ELSE onSelectionChange(
                 [w EXCEPT !.sm = s1,
                           !.hist = histToggle(w.hist, s1, w.qm.currentQuestion)],
                 Cardinality(s1.selectedLines))

\* The user clicks a line element that carries the click listener.
LineClick ==
    /\ dom.listening
    /\ \E lineNumber \in 1..dom.lines :
          LET w == lineClicked(World, lineNumber)
          IN  /\ Commit(w)
              /\ lastCall' = CallS("handleLineClick", lineNumber, noCriteria, w)
              /\ UNCHANGED validateVars

\* The user clicks the verify button (or presses Ctrl+Enter), which is
\* possible only while the button is not disabled.
VerifyClick ==
    /\ ~app.verifyDisabled
    /\ LET w == verifyAnswer(World)
       IN  /\ Commit(w)
           /\ lastCall' = CallS("verifyAnswer", 0, noCriteria, w)
           /\ UNCHANGED validateVars

\* The user asks for the next question (button or Ctrl+ArrowRight).
NextClick ==
    /\ Len(timers) < MaxPendingTimers
    /\ LET w == nextQuestion(World)
       IN  /\ Commit(w)
           /\ lastCall' = CallS("nextQuestion", 0, noCriteria, w)
           /\ UNCHANGED validateVars

\* The user asks for the previous question (button or Ctrl+ArrowLeft).
PreviousClick ==
    /\ Len(timers) < MaxPendingTimers
    /\ LET w == previousQuestion(World)
       IN  /\ Commit(w)
           /\ lastCall' = CallS("previousQuestion", 0, noCriteria, w)
           /\ UNCHANGED validateVars

\* The user changes a filter select: applyFilters() reads the three selects.
FilterChange ==
    /\ Len(timers) < MaxPendingTimers
    /\ \E criteria \in FilterSelections :
          LET w == filterQuestions(World, criteria)
          IN  /\ Commit(w)
              /\ lastCall' = CallS("applyFilters", 0, criteria, w)
              /\ UNCHANGED validateVars

\* The oldest pending setTimeout callback runs: resetForNewQuestion(question).
TimerFire ==
    /\ timers # <<>>
    /\ LET w == resetForNewQuestion([World EXCEPT !.timers = Tail(timers)], Head(timers))
       IN  /\ Commit(w)
           /\ lastCall' = CallS("resetForNewQuestion", 0, noCriteria, w)
           /\ UNCHANGED validateVars

NextApp ==
    \/ LineClick
    \/ VerifyClick
    \/ NextClick
    \/ PreviousClick
    \/ FilterChange
    \/ TimerFire

SpecApp == InitApp /\ [][NextApp]_vars

(* ------------- specification of the loads of a session ---------------- *)
\* The loads of a session and their deferred resets, before any
\* verification: the user marks lines, navigates and changes filters, and
\* the event loop runs the pending zero-delay timer callbacks, each of them
\* eventually.
NextLoads ==
    \/ LineClick
    \/ NextClick
    \/ PreviousClick
    \/ FilterChange
    \/ TimerFire

SpecLoadsFair == InitApp /\ [][NextLoads]_vars /\ WF_vars(TimerFire)

(* ------------- specification of the store with callbacks -------------- *)
\* The QuestionManager of a constructed application, with onQuestionLoad,
\* onQuestionChange and onFilterChange installed: its public methods are
\* called in any order, and the event loop runs the deferred resets.
InitWired ==
    /\ vaSelected = <<>>
    /\ vaCorrect = <<>>
    /\ vaResult = NoResult
    /\ sm = smInit
    /\ dom = domInit
    /\ hist = histInit
    /\ qm = qmInit(TRUE)
    /\ app = appInit(TRUE)
    /\ timers = <<>>
    /\ lastCall = Call("constructor", 0, "")

\* Arrays handed to loadQuestions; every record in them passes
\* validateQuestion.
WiredLoadInputs ==
    {<<>>, <<QA, QB, QC>>, <<QB, QEmptyCode, QA>>, <<QEmptyCode, QC>>}

\* The record kept in lastCall for a method of the store called with the
\* callbacks installed: as CallS, with the arguments of onQuestionChange.
CallW(op, arg, criteria, w) ==
    [op |-> op, arg |-> arg, key |-> "", criteria |-> criteria,
     ret |-> w.ret, threw |-> w.threw, change |-> w.change]

WiredLoadQuestions ==
    /\ Len(timers) < MaxPendingTimers
    /\ \E questions \in WiredLoadInputs :
          LET w == loadQuestions(World, questions)
          IN  /\ Commit(w)
              /\ lastCall' = CallW("loadQuestions", questions, noCriteria, w)
              /\ UNCHANGED validateVars

WiredNextQuestion ==
    /\ Len(timers) < MaxPendingTimers
    /\ LET w == nextQuestion(World)
       IN  /\ Commit(w)
           /\ lastCall' = CallW("nextQuestion", 0, noCriteria, w)
           /\ UNCHANGED validateVars

WiredPreviousQuestion ==
    /\ Len(timers) < MaxPendingTimers
    /\ LET w == previousQuestion(World)
       IN  /\ Commit(w)
           /\ lastCall' = CallW("previousQuestion", 0, noCriteria, w)
           /\ UNCHANGED validateVars

WiredGoToQuestion ==
    /\ Len(timers) < MaxPendingTimers
    /\ \E index \in -1..3 :
          LET w == goToQuestion(World, index)
          IN  /\ Commit(w)
              /\ lastCall' = CallW("goToQuestion", index, noCriteria, w)
              /\ UNCHANGED validateVars

WiredFilterQuestions ==
    /\ Len(timers) < MaxPendingTimers
    /\ \E criteria \in FilterSelections :
          LET w == filterQuestions(World, criteria)
          IN  /\ Commit(w)
              /\ lastCall' = CallW("filterQuestions", 0, criteria, w)
              /\ UNCHANGED validateVars

NextWired ==
    \/ WiredLoadQuestions
    \/ WiredNextQuestion
    \/ WiredPreviousQuestion
    \/ WiredGoToQuestion
    \/ WiredFilterQuestions
    \/ TimerFire

SpecWired == InitWired /\ [][NextWired]_vars

(* ------------------------------ claims --------------------------------- *)
\* C1: validateAnswer returns 'success' if and only if the set of selected
\* lines equals the set of correct lines (both empty included).
C1_SuccessIffSetsEqual ==
    vaResult # NoResult =>
        ((vaResult.type = "success") <=> (SetOf(vaSelected) = SetOf(vaCorrect)))

\* A success on a non-empty key given with a repeated line and in another order.
C1_Witness ==
    /\ vaResult # NoResult
    /\ vaResult.type = "success"
    /\ vaSelected = <<2, 1, 2>>
    /\ vaCorrect = <<1, 2>>

\* C2: validateAnswer returns 'partial' if and only if the selected set and
\* the correct set share at least one line and are not equal.
C2_PartialIffOverlapNotEqual ==
    vaResult # NoResult =>
        ((vaResult.type = "partial") <=>
            (/\ SetOf(vaSelected) \cap SetOf(vaCorrect) # {}
             /\ SetOf(vaSelected) # SetOf(vaCorrect)))

\* A partial outcome with both a missed line and an extra line.
C2_Witness ==
    /\ vaResult # NoResult
    /\ vaResult.type = "partial"
    /\ vaResult.stats.missed > 0
    /\ vaResult.stats.extra > 0

\* C3: validateAnswer returns 'error' if and only if the selected set and the
\* correct set are disjoint and at least one of them is non-empty.
C3_ErrorIffDisjointNonEmpty ==
    vaResult # NoResult =>
        ((vaResult.type = "error") <=>
            (/\ SetOf(vaSelected) \cap SetOf(vaCorrect) = {}
             /\ (SetOf(vaSelected) # {} \/ SetOf(vaCorrect) # {})))

\* A failure for a non-empty selection against an empty answer key.
C3_Witness ==
    /\ vaResult # NoResult
    /\ vaResult.type = "error"
    /\ vaCorrect = <<>>
    /\ vaSelected # <<>>

\* C4: verifyAnswer() is a complete no-op when the selection is empty and the
\* current exercise's answer key is non-empty, and when there is no current
\* exercise: tracker, retained answer and progress sets are unchanged.
C4_RefusedVerifyIsNoOp ==
    [][(/\ lastCall'.op = "verifyAnswer"
        /\ \/ qm.currentQuestion = NoQuestion
           \/ /\ sm.selectedLines = {}
              /\ Len(qm.currentQuestion.vulnerableLines) > 0)
          => /\ sm' = sm
             /\ app' = app
             /\ qm' = qm
             /\ hist' = hist
             /\ dom' = dom
             /\ timers' = timers
             /\ ~lastCall'.ret]_vars

\* verifyAnswer() has returned early on an exercise with a non-empty key and
\* an empty selection, in a session that has completed exercises.
C4_Witness ==
    /\ lastCall.op = "verifyAnswer"
    /\ ~lastCall.ret
    /\ qm.currentQuestion # NoQuestion
    /\ Len(qm.currentQuestion.vulnerableLines) > 0
    /\ sm.selectedLines = {}
    /\ ~sm.isAnswered
    /\ app.completed # {}

\* C5: no exercise id is ever in both the correct set and the incorrect set;
\* after each accepted verifyAnswer() the current exercise's id is in the
\* correct set exactly when the outcome is 'success', otherwise in the
\* incorrect set, and it is not in the opposite set.
C5_CorrectIncorrectExclusive ==
    /\ app.correct \cap app.incorrect = {}
    /\ [][/\ app'.correct \cap app'.incorrect = {}
          /\ (lastCall'.op = "verifyAnswer" /\ lastCall'.ret) =>
                LET id == qm.currentQuestion.id
                    outcome == app'.currentAnswer.validationResult
                IN  /\ outcome.type \in {"success", "partial", "error"}
                    /\ SetOf(outcome.details.correctLines) =
                          sm.selectedLines \cap SetOf(qm.currentQuestion.vulnerableLines)
                    /\ id \in app'.completed
                    /\ (id \in app'.correct) <=> (outcome.type = "success")
                    /\ (id \in app'.incorrect) <=> (outcome.type # "success")]_vars

\* An accepted verifyAnswer() with outcome 'success' while another exercise
\* is recorded as incorrect.
C5_Witness ==
    /\ lastCall.op = "verifyAnswer"
    /\ lastCall.ret
    /\ app.currentAnswer # NoAnswer
    /\ app.currentAnswer.validationResult.type = "success"
    /\ qm.currentQuestion.id \in app.correct
    /\ app.incorrect # {}

\* C6 (as stated): once markAsAnswered() has been called, line clicks and key
\* presses do not change the mark set until reset() is called, whatever other
\* tracker operations are performed in between.
C6_Original ==
    [][(hist.marked /\ ~hist.resetSince /\ IsLineClickOrKey(lastCall'))
          => sm'.selectedLines = sm.selectedLines]_vars

\* C6 (amended): once markAsAnswered() has been called, line clicks and key
\* presses do not change the mark set until reset() or enableSelection() is
\* called, whatever other tracker operations are performed in between.
C6_LockedUntilResetOrEnable ==
    [][(/\ hist.marked
        /\ ~hist.resetSince
        /\ ~hist.enableSince
        /\ IsLineClickOrKey(lastCall'))
          => sm'.selectedLines = sm.selectedLines]_vars

\* A click on a rendered line of an enabled tracker holding marks, made after
\* markAsAnswered() with neither reset() nor enableSelection() since.
C6_Witness ==
    /\ hist.marked
    /\ ~hist.resetSince
    /\ ~hist.enableSince
    /\ lastCall.op = "handleLineClick"
    /\ sm.isEnabled
    /\ sm.selectedLines # {}
    /\ lastCall.arg \notin sm.selectedLines

\* C7 (as stated): reset() leads to an empty mark set, empty highlight sets,
\* answered = false and selection Disabled.
C7_Original ==
    lastCall.op = "reset" =>
        /\ sm.selectedLines = {}
        /\ sm.correctLines = {}
        /\ sm.incorrectLines = {}
        /\ ~sm.isAnswered
        /\ ~sm.isEnabled

\* C7 (amended): from every reachable tracker state reset() leads to an empty
\* mark set, empty highlight sets and answered = false; it leaves isEnabled
\* as it was (an Enabled tracker stays Enabled).
C7_ResetClearsKeepsEnabled ==
    [][lastCall'.op = "reset" =>
          /\ sm'.selectedLines = {}
          /\ sm'.correctLines = {}
          /\ sm'.incorrectLines = {}
          /\ ~sm'.isAnswered
          /\ sm'.isEnabled = sm.isEnabled]_vars

\* reset() has run on an Enabled tracker that had been marked answered.
C7_Witness ==
    /\ lastCall.op = "reset"
    /\ hist.marked
    /\ sm.isEnabled
    /\ sm.selectedLines = {}

\* C8 (as stated): enableSelection() leads to Enabled, answered = false, an
\* empty mark set and empty highlight sets.
C8_Original ==
    lastCall.op = "enableSelection" =>
        /\ sm.isEnabled
        /\ ~sm.isAnswered
        /\ sm.selectedLines = {}
        /\ sm.correctLines = {}
        /\ sm.incorrectLines = {}

\* C8 (amended): from every reachable tracker state enableSelection() leads to
\* Enabled with answered = false and empty highlight sets, and leaves the mark
\* set as it was; calling it again changes nothing.
C8_EnableKeepsMarksIdempotent ==
    [][lastCall'.op = "enableSelection" =>
          /\ sm'.isEnabled
          /\ ~sm'.isAnswered
          /\ sm'.correctLines = {}
          /\ sm'.incorrectLines = {}
          /\ sm'.selectedLines = sm.selectedLines
          /\ enableSelection(sm') = sm'
          /\ enableSelectionDom(sm', dom') = dom']_vars

\* enableSelection() has run on a tracker that was marked answered and holds
\* marks.
C8_Witness ==
    /\ lastCall.op = "enableSelection"
    /\ hist.marked
    /\ ~hist.resetSince
    /\ sm.selectedLines # {}

\* C9: while the tracker is Enabled and not answered, a toggle of a line of
\* the rendered code adds it to the mark set if absent and removes it if
\* present, and for every line number a second toggle of the same number
\* restores the mark set held before the first.
C9_ToggleIsOwnInverse ==
    [][(/\ sm.isEnabled
        /\ ~sm.isAnswered
        /\ (IsLineClickOrKey(lastCall') \/ lastCall'.op = "toggleLineSelection"))
          => LET n == lastCall'.arg IN
             /\ getLineElement(dom, n) =>
                   sm'.selectedLines =
                       IF n \in sm.selectedLines
                       THEN sm.selectedLines \ {n}
                       ELSE sm.selectedLines \cup {n}
             /\ toggleLineSelection(sm', dom', n).selectedLines = sm.selectedLines]_vars

\* A click has just removed a mark from an Enabled, unanswered tracker that
\* keeps another mark.
C9_Witness ==
    /\ lastCall.op = "handleLineClick"
    /\ sm.isEnabled
    /\ ~sm.isAnswered
    /\ ~hist.marked
    /\ getLineElement(dom, lastCall.arg)
    /\ lastCall.arg \notin sm.selectedLines
    /\ sm.selectedLines # {}

\* C10 (as stated): the result of filterQuestions(criteria) depends only on
\* the stored list and the criteria of that call: it is the stored exercises
\* that match the non-empty criteria passed in the call.
C10_Original ==
    lastCall.op = "filterQuestions" =>
        qm.filteredQuestions =
            SelectSeq(qm.allQuestions,
                LAMBDA q :
                    /\ lastCall.criteria.difficulty \in {Absent, "", q.difficulty}
                    /\ lastCall.criteria.category \in {Absent, "", q.category}
                    /\ lastCall.criteria.language \in {Absent, "", q.language})

\* C10 (amended): the result of filterQuestions(criteria) depends on the
\* stored list and on the stored filters merged with the criteria of the call
\* (a key absent from the call keeps its earlier value); when the call passes
\* all three keys, as applyFilters does, it depends only on the stored list
\* and that call's criteria, and three empty keys give the full stored list
\* in its original order.
C10_FilterUsesMergedCriteria ==
    [][lastCall'.op = "filterQuestions" =>
          LET c == lastCall'.criteria
              inForce == [k \in {"difficulty", "category", "language"} |->
                             IF c[k] = Absent THEN qm.filters[k] ELSE c[k]]
              view(f) == SelectSeq(qm.allQuestions,
                            LAMBDA q :
                                /\ f.difficulty \in {"", q.difficulty}
                                /\ f.category \in {"", q.category}
                                /\ f.language \in {"", q.language})
          IN  /\ qm'.allQuestions = qm.allQuestions
              /\ qm'.filters = inForce
              /\ qm'.filteredQuestions = view(inForce)
              /\ (\A k \in DOMAIN c : c[k] # Absent) => qm'.filteredQuestions = view(c)
              /\ c = noFilters => qm'.filteredQuestions = qm.allQuestions]_vars

\* filterQuestions was called without a difficulty key while an earlier call
\* had set difficulty 'basic': the earlier criterion still narrows the view.
C10_Witness ==
    /\ lastCall.op = "filterQuestions"
    /\ lastCall.criteria.difficulty = Absent
    /\ qm.filters.difficulty = "basic"
    /\ Len(qm.filteredQuestions) > 0
    /\ Len(qm.filteredQuestions) < Len(qm.allQuestions)

\* C11: after filterQuestions(criteria) the filtered view is exactly the
\* stored exercises whose difficulty, category and language equal every
\* non-empty criterion in force (the criteria of the call, and for a key the
\* call did not pass the criterion already stored), in their original
\* order; the current index is 0 and the current exercise is the first
\* element of the view, or none when the view is empty.
C11_FilterViewAndPosition ==
    lastCall.op = "filterQuestions" =>
        LET inForce == qm.filters
            agrees(q) ==
                \A k \in {"difficulty", "category", "language"} :
                    inForce[k] # "" => q[k] = inForce[k]
            kept == {i \in DOMAIN qm.allQuestions : agrees(qm.allQuestions[i])}
        IN  /\ \A k \in DOMAIN lastCall.criteria :
                  lastCall.criteria[k] # Absent => inForce[k] = lastCall.criteria[k]
            /\ Len(qm.filteredQuestions) = Cardinality(kept)
            /\ \A j \in DOMAIN qm.filteredQuestions :
                  LET i == CHOOSE i \in kept :
                              Cardinality({h \in kept : h <= i}) = j
                  IN  qm.filteredQuestions[j] = qm.allQuestions[i]
            /\ qm.currentQuestionIndex = 0
            /\ qm.currentQuestion =
                  IF qm.filteredQuestions = <<>> THEN NoQuestion
                  ELSE qm.filteredQuestions[1]

\* filterQuestions has dropped the first stored exercise and kept a later
\* one, which is now the current exercise.
C11_Witness ==
    /\ lastCall.op = "filterQuestions"
    /\ Len(qm.allQuestions) > 1
    /\ Len(qm.filteredQuestions) = 1
    /\ qm.filteredQuestions[1] # qm.allQuestions[1]
    /\ qm.currentQuestion = qm.filteredQuestions[1]
    /\ qm.filters.difficulty = "advanced"

\* C12: nextQuestion() when the current index is the last of the filtered
\* view (or the view is empty), and previousQuestion() when the current index
\* is 0, return false, throw nothing, fire no load / change callback (nothing
\* is displayed, no deferred reset is scheduled) and leave the current index,
\* the current exercise, the filtered view and the retained answer unchanged.
C12_NavigationPastEndIsNoOp ==
    [][(\/ /\ lastCall'.op = "nextQuestion"
           /\ qm.currentQuestionIndex + 1 >= Len(qm.filteredQuestions)
        \/ /\ lastCall'.op = "previousQuestion"
           /\ qm.currentQuestionIndex = 0)
          => /\ ~lastCall'.ret
             /\ ~lastCall'.threw
             /\ timers' = timers
             /\ dom' = dom
             /\ qm'.currentQuestionIndex = qm.currentQuestionIndex
             /\ qm'.currentQuestion = qm.currentQuestion
             /\ qm'.filteredQuestions = qm.filteredQuestions
             /\ app'.currentAnswer = app.currentAnswer]_vars

\* nextQuestion() has been refused on the last exercise of a view of several
\* exercises while an answer is retained.
C12_Witness ==
    /\ lastCall.op = "nextQuestion"
    /\ ~lastCall.ret
    /\ Len(qm.filteredQuestions) > 1
    /\ qm.currentQuestionIndex = Len(qm.filteredQuestions) - 1
    /\ app.currentAnswer # NoAnswer

\* C13: goToQuestion(index) returns a failure indicator and changes nothing
\* for every index that is not a valid position of the filtered view
\* (index < 0 or index >= length), index 0 on an empty view included; it
\* returns success only when an exercise at that index is the current
\* exercise afterwards.
C13_GoToOutOfRangeFails ==
    [][lastCall'.op = "goToQuestion" =>
          LET index == lastCall'.arg
          IN  /\ (index < 0 \/ index >= Len(qm.filteredQuestions))
                    => (~lastCall'.ret /\ qm' = qm)
              /\ lastCall'.ret
                    => /\ index \in 0..(Len(qm'.filteredQuestions) - 1)
                       /\ qm'.currentQuestionIndex = index
                       /\ qm'.currentQuestion = qm'.filteredQuestions[index + 1]]_vars

\* C14 (as stated): loadQuestions(records) stores exactly the records that
\* pass structural validation, in input order, and drops the others without
\* aborting the load; in every reachable state each stored exercise has every
\* vulnerable line number within [1, number of lines of its code], a language
\* from the supported set and a difficulty from {basic, intermediate,
\* advanced}.
C14_Original ==
    \A i \in DOMAIN qm.allQuestions :
        LET q == qm.allQuestions[i]
        IN  /\ \A j \in DOMAIN q.vulnerableLines :
                  q.vulnerableLines[j] \in 1..SplitLength(q.code)
            /\ q.language \in
                  {"c", "cpp", "java", "javascript", "python", "php", "sql", "csharp"}
            /\ q.difficulty \in {"basic", "intermediate", "advanced"}

\* C14 (amended): loadQuestions(records) stores exactly the records that pass
\* structural validation, in input order, and drops the others without
\* aborting the load; in every reachable state each stored exercise has every
\* vulnerable line number within [1, number of lines of its code], a language
\* whose lower-case form is in the supported set and a difficulty whose
\* lower-case form is in {basic, intermediate, advanced}.
C14_StoredPassValidationIgnoringCase ==
    [][LET lower(tag) == IF tag = "Java" THEN "java"
                         ELSE IF tag = "Basic" THEN "basic" ELSE tag
           wellFormed(q) ==
               /\ \A j \in DOMAIN q.vulnerableLines :
                     q.vulnerableLines[j] \in 1..SplitLength(q.code)
               /\ lower(q.language) \in
                     {"c", "cpp", "java", "javascript", "python", "php", "sql", "csharp"}
               /\ lower(q.difficulty) \in {"basic", "intermediate", "advanced"}
           passes(q) == q.structure = "ok" /\ wellFormed(q)
       IN  /\ lastCall'.op = "loadQuestions" =>
                 /\ ~lastCall'.threw
                 /\ qm'.allQuestions = SelectSeq(lastCall'.arg, passes)
                 /\ qm'.filteredQuestions = qm'.allQuestions
           /\ \A i \in DOMAIN qm.allQuestions : wellFormed(qm.allQuestions[i])
           /\ \A i \in DOMAIN qm'.allQuestions : wellFormed(qm'.allQuestions[i])]_vars

\* loadQuestions has been given five records and has stored two of them, the
\* first being the one with tags in mixed case.
C14_Witness ==
    /\ lastCall.op = "loadQuestions"
    /\ Len(lastCall.arg) = 5
    /\ Len(qm.allQuestions) = 2
    /\ qm.allQuestions[1].language = "Java"
    /\ qm.allQuestions[2].vulnerableLines = <<>>

C16_OutcomeDependsOnSetsOnly ==
    [][lastCall'.op = "validateAnswer" =>
          /\ vaResult' = validateAnswer(SortedArray(SetOf(vaSelected)),
                                        SortedArray(SetOf(vaCorrect)))
          /\ UNCHANGED <<vaSelected, vaCorrect, sm, dom, hist, qm, app, timers>>]_vars

\* validateAnswer has been called on a selection that is out of order and
\* repeats a line, and on a key that is out of order.
C16_Witness ==
    /\ vaResult # NoResult
    /\ vaSelected = <<3, 1, 3>>
    /\ vaCorrect = <<3, 2>>
    /\ vaResult.details.correctLines = <<3>>
    /\ vaResult.details.extraLines = <<1>>

\* C17: the outcome of validateAnswer carries correctLines = selected \cap
\* correct, missedLines = correct \ selected and extraLines = selected \
\* correct, each as an ascending duplicate-free list, with stats.correct,
\* stats.missed and stats.extra equal to their sizes and stats.total equal to
\* the size of the correct set, so that correct + missed = total and
\* correct + extra = number of distinct selected lines.
C17_DetailsAndCounts ==
    vaResult # NoResult =>
        LET selected == {vaSelected[i] : i \in DOMAIN vaSelected}
            correct  == {vaCorrect[i] : i \in DOMAIN vaCorrect}
            ascending(list) ==
                \A i, j \in DOMAIN list : i < j => list[i] < list[j]
            lists(list, S) ==
                /\ ascending(list)
                /\ {list[i] : i \in DOMAIN list} = S
                /\ Len(list) = Cardinality(S)
        IN  /\ lists(vaResult.details.correctLines, selected \cap correct)
            /\ lists(vaResult.details.missedLines, correct \ selected)
            /\ lists(vaResult.details.extraLines, selected \ correct)
            /\ vaResult.stats.correct = Cardinality(selected \cap correct)
            /\ vaResult.stats.missed = Cardinality(correct \ selected)
            /\ vaResult.stats.extra = Cardinality(selected \ correct)
            /\ vaResult.stats.total = Cardinality(correct)
            /\ vaResult.stats.correct + vaResult.stats.missed = vaResult.stats.total
            /\ vaResult.stats.correct + vaResult.stats.extra = Cardinality(selected)

\* validateAnswer([2, 3], [2, 1]): one correct line, missed [1], extra [3].
C17_Witness ==
    /\ vaResult # NoResult
    /\ vaSelected = <<2, 3>>
    /\ vaCorrect = <<2, 1>>
    /\ vaResult.type = "partial"
    /\ vaResult.stats.correct = 1
    /\ vaResult.details.missedLines = <<1>>
    /\ vaResult.details.extraLines = <<3>>

\* C18: the accuracy reported by validateAnswer equals 100 * correctCount /
\* totalCorrect when the answer key is non-empty and 0 when it is empty; it
\* lies in [0, 100], it is 100 whenever the key is non-empty and fully
\* covered, and validateAnswer([], []) is a 'success' with accuracy 0 and all
\* counts 0.
C18_Accuracy ==
    vaResult # NoResult =>
        LET selected == {vaSelected[i] : i \in DOMAIN vaSelected}
            correct  == {vaCorrect[i] : i \in DOMAIN vaCorrect}
            accuracy == vaResult.stats.accuracy
            \* accuracy = n as the fraction num / den
            equals(n) == accuracy.num = n * accuracy.den
        IN  /\ accuracy.den > 0
            /\ correct # {} =>
                  accuracy.num * Cardinality(correct) =
                      100 * Cardinality(selected \cap correct) * accuracy.den
            /\ correct = {} => equals(0)
            /\ 0 <= accuracy.num /\ accuracy.num <= 100 * accuracy.den
            /\ (correct # {} /\ correct \subseteq selected) => equals(100)
            /\ (vaSelected = <<>> /\ vaCorrect = <<>>) =>
                  /\ vaResult.type = "success"
                  /\ equals(0)
                  /\ vaResult.stats.correct = 0
                  /\ vaResult.stats.missed = 0
                  /\ vaResult.stats.extra = 0
                  /\ vaResult.stats.total = 0

\* validateAnswer([1, 2], []): a selection on an empty key is reported with
\* accuracy 0.
C18_Witness ==
    /\ vaResult # NoResult
    /\ vaSelected = <<1, 2>>
    /\ vaCorrect = <<>>
    /\ vaResult.stats.accuracy.num = 0
    /\ vaResult.stats.total = 0
    /\ vaResult.type = "error"

\* C19: for a current exercise whose answer key is empty (secure code),
\* verifyAnswer() with an empty selection is not refused: it produces a
\* 'success' outcome, marks the tracker answered, records the retained answer
\* and adds the exercise id to the completed and correct sets; with a
\* non-empty selection on such an exercise it records a failure and adds the
\* id to the incorrect set.
C19_SecureCodeVerification ==
    [][(/\ lastCall'.op = "verifyAnswer"
        /\ qm.currentQuestion # NoQuestion
        /\ qm.currentQuestion.vulnerableLines = <<>>)
          => LET id == qm.currentQuestion.id
                 answer == app'.currentAnswer
             IN  /\ lastCall'.ret
                 /\ sm'.isAnswered
                 /\ answer # NoAnswer
                 /\ SetOf(answer.selectedLines) = sm.selectedLines
                 /\ id \in app'.completed
                 /\ sm.selectedLines = {} =>
                       /\ answer.validationResult.type = "success"
                       /\ id \in app'.correct
                       /\ id \notin app'.incorrect
                 /\ sm.selectedLines # {} =>
                       /\ answer.validationResult.type # "success"
                       /\ id \in app'.incorrect
                       /\ id \notin app'.correct]_vars

\* verifyAnswer() has accepted an empty selection on a secure-code exercise
\* and has recorded it as correct.
C19_Witness ==
    /\ lastCall.op = "verifyAnswer"
    /\ lastCall.ret
    /\ qm.currentQuestion # NoQuestion
    /\ qm.currentQuestion.vulnerableLines = <<>>
    /\ sm.selectedLines = {}
    /\ sm.isAnswered
    /\ app.currentAnswer # NoAnswer
    /\ app.currentAnswer.validationResult.type = "success"
    /\ qm.currentQuestion.id \in app.correct

\* C20: across every interleaving of user events (line click, verify, next /
\* previous, filter change) with the deferred zero-delay reset scheduled by
\* onQuestionLoad, verifyAnswer() never validates marks that were made on one
\* exercise against the answer key of a different exercise, and never finds
\* the tracker still marked answered from the previous exercise.
C20_NoStaleSelectionAtVerify ==
    [][(lastCall'.op = "verifyAnswer" /\ lastCall'.ret)
          => /\ sm.selectedLines # {} => hist.marksOn = qm.currentQuestion.id
             /\ sm.isAnswered => hist.answeredOn = qm.currentQuestion.id]_vars

\* C21: render-then-enable. Every load of an exercise (next, previous, filter
\* change; the initial load is the initial state) renders its code, leaves
\* the new line elements without listeners and queues one deferred reset;
\* each deferred reset runs against the code rendered last, which is the
\* code of the current exercise, and leaves the tracker Enabled with an empty
\* mark set and listeners on those lines; line elements that carry listeners
\* are always those of the current exercise; and while a deferred reset is
\* pending, one eventually runs.
C21_RenderThenEnable ==
    /\ [][/\ (/\ lastCall'.op \in {"nextQuestion", "previousQuestion", "applyFilters"}
              /\ lastCall'.ret
              /\ qm'.filteredQuestions # <<>>)
             => /\ dom'.lines = SplitLength(qm'.currentQuestion.code)
                /\ ~dom'.listening
                /\ timers' = Append(timers, qm'.currentQuestion)
          /\ lastCall'.op = "resetForNewQuestion"
             => /\ timers' = Tail(timers)
                /\ dom'.lines = dom.lines
                /\ qm.currentQuestion # NoQuestion
                      => dom'.lines = SplitLength(qm.currentQuestion.code)
                /\ dom'.listening
                /\ sm'.isEnabled
                /\ ~sm'.isAnswered
                /\ sm'.selectedLines = {}]_vars
    /\ []((dom.listening /\ qm.currentQuestion # NoQuestion)
             => dom.lines = SplitLength(qm.currentQuestion.code))
    /\ (timers # <<>>) ~> (/\ lastCall.op = "resetForNewQuestion"
                           /\ sm.isEnabled
                           /\ dom.listening
                           /\ sm.selectedLines = {})

\* Two loads in quick succession: the deferred reset of the first has just
\* run, on the code of the exercise loaded second, whose own reset is still
\* pending.
C21_Witness ==
    /\ lastCall.op = "resetForNewQuestion"
    /\ Len(timers) = 1
    /\ timers[1] = qm.currentQuestion
    /\ qm.currentQuestionIndex = 2
    /\ dom.listening
    /\ dom.lines = SplitLength(qm.currentQuestion.code)
    /\ sm.isEnabled
    /\ sm.selectedLines = {}

\* C22: in every state reachable through loadQuestions, filterQuestions,
\* nextQuestion, previousQuestion, goToQuestion and reset of the store: if
\* the filtered view is non-empty then 0 <= currentQuestionIndex < its length
\* and the current exercise is the element at that index; if the filtered
\* view is empty then there is no current exercise.
C22_IndexAndCurrentConsistent ==
    IF qm.filteredQuestions # <<>>
    THEN /\ qm.currentQuestionIndex \in 0..(Len(qm.filteredQuestions) - 1)
         /\ qm.currentQuestion = qm.filteredQuestions[qm.currentQuestionIndex + 1]
    ELSE qm.currentQuestion = NoQuestion

\* C23: whenever the retained answer (currentAnswer) is non-null it was
\* produced by verifyAnswer() on the exercise that is currently active, and
\* every operation that changes the active exercise (next, previous, filter
\* change) leaves it null.
C23_RetainedAnswerIsOfActiveExercise ==
    [][/\ app'.currentAnswer # NoAnswer
             => /\ qm'.currentQuestion # NoQuestion
                /\ hist'.answerOn = qm'.currentQuestion.id
       /\ qm'.currentQuestion # qm.currentQuestion
             => app'.currentAnswer = NoAnswer]_vars

\* C24: a toggle request is a no-op in every state other than Enabled: while
\* selection is Disabled (before the first enableSelection, or after
\* disableSelection) no toggle entry point of the tracker (handleLineClick,
\* handleKeyPress, toggleLineSelection) changes the mark set.
C24_ToggleNoOpWhileDisabled ==
    [][(/\ ~sm.isEnabled
        /\ lastCall'.op \in {"handleLineClick", "handleKeyPress", "toggleLineSelection"})
          => sm'.selectedLines = sm.selectedLines]_vars

\* C25 (as stated): a selection request for a line number outside [1, number
\* of lines of the rendered code] leaves the mark set unchanged and raises no
\* error, for toggle, selectLine and setSelectedLines alike.
C25_Original ==
    [][/\ (/\ lastCall'.op \in {"toggleLineSelection", "selectLine"}
           /\ lastCall'.arg \notin 1..dom.lines)
          => sm'.selectedLines = sm.selectedLines
       /\ (/\ lastCall'.op = "setSelectedLines"
           /\ lastCall'.arg.isArray
           /\ lastCall'.arg.items # <<>>
           /\ \A i \in DOMAIN lastCall'.arg.items :
                 /\ lastCall'.arg.items[i].kind = "number"
                 /\ lastCall'.arg.items[i].value \notin 1..dom.lines)
          => sm'.selectedLines = sm.selectedLines]_vars

\* C25 (amended): a selection request for a line number outside [1, number
\* of lines of the rendered code] raises no error and never adds that number
\* to the mark set; toggle and selectLine leave the mark set unchanged, and
\* setSelectedLines, which first clears the marks held before, leaves it
\* empty; hence every line added to the mark set by an operation of the
\* tracker is a line of the code rendered at the time it was added.
C25_OutOfRangeNeverAdded ==
    [][/\ (/\ lastCall'.op \in {"toggleLineSelection", "selectLine"}
           /\ lastCall'.arg \notin 1..dom.lines)
          => sm'.selectedLines = sm.selectedLines
       /\ (/\ lastCall'.op = "setSelectedLines"
           /\ lastCall'.arg.isArray
           /\ \A i \in DOMAIN lastCall'.arg.items :
                 /\ lastCall'.arg.items[i].kind = "number"
                 /\ lastCall'.arg.items[i].value \notin 1..dom.lines)
          => sm'.selectedLines = {}
       /\ lastCall'.op # "renderCode"
          => (sm'.selectedLines \ sm.selectedLines) \subseteq 1..dom.lines]_vars

\* setSelectedLines has been given a line number beyond the rendered code
\* while other lines of that code stay unmarked.
C25_Witness ==
    /\ lastCall.op = "setSelectedLines"
    /\ lastCall.arg.isArray
    /\ Len(lastCall.arg.items) = 1
    /\ lastCall.arg.items[1].kind = "number"
    /\ lastCall.arg.items[1].value > dom.lines
    /\ dom.lines > 0
    /\ sm.selectedLines = {}
    /\ sm.isEnabled

\* C29: setSelectedLines(lines) replaces the mark set wholesale: afterwards
\* the mark set is exactly the set of entries of lines that are positive
\* integers and lines of the rendered code, independent of the marks held
\* before the call; non-positive and non-integer entries are ignored, and a
\* non-array argument leaves the mark set unchanged.
C29_SetSelectedLinesReplaces ==
    [][lastCall'.op = "setSelectedLines" =>
          LET lines == lastCall'.arg
              wanted == {n \in 1..dom.lines :
                            \E i \in DOMAIN lines.items :
                                /\ lines.items[i].kind = "number"
                                /\ lines.items[i].value = n}
          IN  /\ lines.isArray => sm'.selectedLines = wanted
              /\ ~lines.isArray => sm'.selectedLines = sm.selectedLines
              /\ sm'.isEnabled = sm.isEnabled
              /\ sm'.isAnswered = sm.isAnswered]_vars

\* setSelectedLines([-1, 1.5, 1]) has replaced other marks by line 1.
C29_Witness ==
    /\ lastCall.op = "setSelectedLines"
    /\ lastCall.arg.isArray
    /\ Len(lastCall.arg.items) = 3
    /\ lastCall.arg.items[2].kind = "fraction"
    /\ dom.lines >= 2
    /\ sm.selectedLines = {1}
    /\ sm.correctLines # {}

\* C26: in every reachable state the stored exercise list contains no two
\* exercises with the same identifier and every identifier is a positive
\* integer.
C26_StoredIdsUniquePositive ==
    /\ \A i \in DOMAIN qm.allQuestions : qm.allQuestions[i].id > 0
    /\ \A i, j \in DOMAIN qm.allQuestions :
          qm.allQuestions[i].id = qm.allQuestions[j].id => i = j

\* C27: a 'partial' outcome is counted as incorrect: after verifyAnswer()
\* yields 'partial' for an exercise its id is in the completed and incorrect
\* sets and not in the correct set; the completed set always equals the union
\* of the correct and incorrect sets, and no step of the session (navigation
\* and filter changes included) removes an id from it.
C27_PartialCountsAsIncorrect ==
    [][/\ app.completed = app.correct \cup app.incorrect
       /\ app'.completed = app'.correct \cup app'.incorrect
       /\ app.completed \subseteq app'.completed
       /\ (/\ lastCall'.op = "verifyAnswer"
           /\ lastCall'.ret
           /\ app'.currentAnswer.validationResult.type = "partial")
          => /\ qm.currentQuestion.id \in app'.completed
             /\ qm.currentQuestion.id \in app'.incorrect
             /\ qm.currentQuestion.id \notin app'.correct]_vars

\* verifyAnswer() has just yielded 'partial' on one exercise while another
\* exercise is counted as correct.
C27_Witness ==
    /\ lastCall.op = "verifyAnswer"
    /\ lastCall.ret
    /\ app.currentAnswer.validationResult.type = "partial"
    /\ qm.currentQuestion.id \in app.incorrect
    /\ app.correct # {}

\* C28: every exercise record that loadQuestions accepts can become the
\* active exercise without an exception: loading it, navigating to it with
\* next/previous/goTo, or reaching it through a filter change completes
\* normally and, when the view is not empty, leaves the index within the
\* view, the current exercise equal to the element at the index, and the
\* code of the current exercise displayed.
C28_AcceptedRecordsBecomeActive ==
    lastCall.op \in {"loadQuestions", "nextQuestion", "previousQuestion",
                     "goToQuestion", "filterQuestions"} =>
        /\ ~lastCall.threw
        /\ qm.filteredQuestions # <<>> =>
              /\ qm.currentQuestionIndex \in 0..(Len(qm.filteredQuestions) - 1)
              /\ qm.currentQuestion = qm.filteredQuestions[qm.currentQuestionIndex + 1]
              /\ dom.lines = SplitLength(qm.currentQuestion.code)

\* C30: when goToQuestion(index) succeeds in moving to a different position,
\* the change callback receives the previous exercise as old question and
\* direction 'next' if the target index is greater than the index held
\* before the call, and 'previous' if it is smaller.
C30_GoToDirection ==
    [][(/\ lastCall'.op = "goToQuestion"
        /\ lastCall'.ret
        /\ ~lastCall'.threw
        /\ lastCall'.arg # qm.currentQuestionIndex)
       => /\ lastCall'.change # NoChange
          /\ lastCall'.change.oldQuestion = qm.currentQuestion
          /\ lastCall'.change.newQuestion = qm'.currentQuestion
          /\ lastCall'.change.direction =
                IF lastCall'.arg > qm.currentQuestionIndex
                THEN "next" ELSE "previous"]_vars

====
